---- MODULE Spec2Model ----
(***************************************************************************)
(* Model of model/builder.py: ModelBuilder, the abstract base class that   *)
(* wires subclass callbacks (inference, loss, train op, datasets,          *)
(* visualisation) into estimator specs, input pipelines and visualisation  *)
(* loops.                                                                  *)
(*                                                                         *)
(* The default graph is a record of the collections the code reads and     *)
(* writes.  Every call runs in the default graph its caller has set up     *)
(* (the Estimator builds one per call; layers created earlier may already  *)
(* have registered losses and update ops in it), so the graph a call       *)
(* starts from is an input of the call.  Subclass callbacks are modelled   *)
(* by what they can do to that graph (register regularization losses and   *)
(* update ops) and by the value they return; every invocation is appended  *)
(* to the trace `calls`.                                                   *)
(***************************************************************************)
EXTENDS Integers, Sequences, FiniteSets, TLC

VARIABLES params, graph, op, calls, ret, pc, locals, sess, vis_calls

vars == <<params, graph, op, calls, ret, pc, locals, sess, vis_calls>>

(* ------------------------------ bounds --------------------------------- *)
MaxBatch == 2          \* largest params['batch_size']
MaxExamples == 2       \* largest dataset returned by a get_*_dataset callback
MaxRuns == 3           \* cap on the iterations of an endless session loop
MaxRegLosses == 2      \* most regularization losses get_total_loss adds up
MaxRegValue == 2       \* largest value of a regularization loss
MaxLoss == 1           \* largest value of a loss tensor

(* ------------------------- values of the program ----------------------- *)
\* Tensors (and None, and an unbound local) are tuples of strings.
None == <<"None">>
Unbound == <<"unbound">>

\* tf.estimator.ModeKeys
TRAIN == "train"
EVAL == "eval"
PREDICT == "infer"
OtherMode == "other"
Modes == {TRAIN, EVAL, PREDICT, OtherMode}

Features == {<<"x">>}
Labels == {<<"y">>, None}
LossValues == 0..MaxLoss
RegValues == 1..MaxRegValue
RegSeqs == {<<>>, <<MaxRegValue>>}
Infinite == -1

EmptyGraph ==
  [REGULARIZATION_LOSSES |-> <<>>, UPDATE_OPS |-> {}, summaries |-> <<>>,
   global_step |-> FALSE]

RECURSIVE SeqsUpTo(_, _)
SeqsUpTo(S, k) ==
  IF k = 0 THEN {<<>>}
  ELSE LET shorter == SeqsUpTo(S, k - 1)
       IN shorter \cup {Append(q, a) : q \in shorter, a \in S}

\* The graphs a call can start from.
Graphs(k) ==
  [REGULARIZATION_LOSSES : SeqsUpTo(RegValues, k),
   UPDATE_OPS : SUBSET {"u0"}, summaries : {<<>>}, global_step : {FALSE}]

NoDataset == [source |-> "none", remaining |-> 0, batch_size |-> 1]

Return(v) == [kind |-> "return", exc |-> "", value |-> v]
Raise(e) == [kind |-> "raise", exc |-> e, value |-> <<>>]
NoRet == [kind |-> "none", exc |-> "", value |-> <<>>]

Call(fn, upd, ctl) == [fn |-> fn, upd |-> upd, ctl |-> ctl]

RECURSIVE add_n(_)
add_n(s) == IF s = <<>> THEN 0 ELSE Head(s) + add_n(Tail(s))

Min(a, b) == IF a < b THEN a ELSE b

(* ------------------------------ callbacks ------------------------------ *)
\* The subclass's get_inference: an opaque tensor built from its arguments.
get_inference(features, mode) == <<"inference", features[1], mode>>

get_predictions(inferences) == inferences

get_eval_metric_ops(predictions, labels) == <<>>

(* ---------------------------- get_total_loss --------------------------- *)
\* Variant: the collection test written as len(reg_losses) > 1.
get_total_loss_off_by_one(g, inference_loss) ==
  LET reg_losses == g.REGULARIZATION_LOSSES
  IN IF Len(reg_losses) > 1
       THEN LET reg_loss == add_n(reg_losses)
            IN [loss |-> inference_loss + reg_loss,
                graph |-> [g EXCEPT !.summaries = @ \o
                   << [tag |-> "inference_loss", value |-> inference_loss],
                      [tag |-> "reg_loss", value |-> reg_loss] >>]]
       ELSE [loss |-> inference_loss, graph |-> g]

get_total_loss(g, inference_loss) ==
  LET reg_losses == g.REGULARIZATION_LOSSES
  IN IF Len(reg_losses) > 0
       THEN LET reg_loss == add_n(reg_losses)
            IN [loss |-> inference_loss + reg_loss,
                graph |-> [g EXCEPT !.summaries = @ \o
                   << [tag |-> "inference_loss", value |-> inference_loss],
                      [tag |-> "reg_loss", value |-> reg_loss] >>]]
       ELSE [loss |-> inference_loss, graph |-> g]

(* -------------------------- get_estimator_spec ------------------------- *)
\* env is what the subclass callbacks do during this call:
\*   inf_reg   regularization losses registered by get_inference
\*   inf_upd   update ops registered by get_inference
\*   loss_upd  update ops registered by get_inference_loss
\*   loss_val  the tensor returned by get_inference_loss
Envs ==
  [inf_reg : RegSeqs, inf_upd : SUBSET {"u1"}, loss_upd : SUBSET {"u2"},
   loss_val : LossValues]

\* Lines 149-151: inference, predictions and the first two spec arguments.
inference_stage(g, features, mode, env) ==
  LET inference == get_inference(features, mode)
      predictions == get_predictions(inference)
  IN [graph |-> [g EXCEPT !.REGULARIZATION_LOSSES = @ \o env.inf_reg,
                          !.UPDATE_OPS = @ \cup env.inf_upd],
      predictions |-> predictions,
      spec_kwargs |-> [mode |-> mode, predictions |-> predictions],
      calls |-> << Call("get_inference", env.inf_upd, {}),
                   Call("get_predictions", {}, {}) >>]

\* Variant: the inference loss used as the loss, get_total_loss skipped.
loss_stage_without_total_loss(st, labels, env) ==
  [graph |-> [st.graph EXCEPT !.UPDATE_OPS = @ \cup env.loss_upd],
   predictions |-> st.predictions,
   loss |-> env.loss_val,
   spec_kwargs |-> ("loss" :> env.loss_val) @@ st.spec_kwargs,
   calls |-> Append(st.calls, Call("get_inference_loss", env.loss_upd, {}))]

\* Lines 156-158: the inference loss, the total loss, spec_kwargs['loss'].
loss_stage(st, labels, env) ==
  LET g == [st.graph EXCEPT !.UPDATE_OPS = @ \cup env.loss_upd]
      inference_loss == env.loss_val
      tl == get_total_loss(g, inference_loss)
  IN [graph |-> tl.graph,
      predictions |-> st.predictions,
      loss |-> tl.loss,
      spec_kwargs |-> ("loss" :> tl.loss) @@ st.spec_kwargs,
      calls |-> st.calls \o << Call("get_inference_loss", env.loss_upd, {}),
                               Call("get_total_loss", {}, {}) >>]

\* Lines 161-162: spec_kwargs['eval_metric_ops'].
eval_stage(st, labels) ==
  [st EXCEPT
     !.spec_kwargs = ("eval_metric_ops" :>
                         get_eval_metric_ops(st.predictions, labels)) @@ @,
     !.calls = Append(@, Call("get_eval_metric_ops", {}, {}))]

\* Lines 165-169: the global step, then get_train_op inside
\* tf.control_dependencies(update_ops).
\* Variant: get_train_op called outside the control-dependency block.
train_stage_no_control_dependencies(st) ==
  LET step == <<"global_step">>
      train_op == [loss |-> st.loss, step |-> step, control_inputs |-> {}]
  IN [st EXCEPT !.graph = [@ EXCEPT !.global_step = TRUE],
                !.spec_kwargs = ("train_op" :> train_op) @@ @,
                !.calls = Append(@, Call("get_train_op", {}, {}))]

train_stage(st) ==
  LET step == <<"global_step">>
      update_ops == st.graph.UPDATE_OPS
      train_op == [loss |-> st.loss, step |-> step,
                   control_inputs |-> update_ops]
  IN [st EXCEPT !.graph = [@ EXCEPT !.global_step = TRUE],
                !.spec_kwargs = ("train_op" :> train_op) @@ @,
                !.calls = Append(@, Call("get_train_op", {}, update_ops))]

Finish(st, r) == [graph |-> st.graph, calls |-> st.calls, ret |-> r]

\* Variant: the early return of PREDICT mode is missing.
get_estimator_spec_no_predict_return(g, features, labels, mode, env) ==
  LET s1 == inference_stage(g, features, mode, env)
      s2 == loss_stage(s1, labels, env)
      s3 == eval_stage(s2, labels)
      s4 == train_stage(s2)
  IN IF mode = EVAL THEN Finish(s3, Return(s3.spec_kwargs))
     ELSE IF mode = TRAIN THEN Finish(s4, Return(s4.spec_kwargs))
     ELSE Finish(s4, Raise("ValueError: Unrecognized mode"))

\* Variant: the final mode test is missing, the train spec is returned.
get_estimator_spec_no_mode_check(g, features, labels, mode, env) ==
  LET s1 == inference_stage(g, features, mode, env)
      s2 == loss_stage(s1, labels, env)
      s3 == eval_stage(s2, labels)
      s4 == train_stage(s2)
  IN IF mode = PREDICT THEN Finish(s1, Return(s1.spec_kwargs))
     ELSE IF mode = EVAL THEN Finish(s3, Return(s3.spec_kwargs))
     ELSE Finish(s4, Return(s4.spec_kwargs))

\* Variant: the eval metrics are built before the EVAL test.
get_estimator_spec_eval_metrics_early(g, features, labels, mode, env) ==
  LET s1 == inference_stage(g, features, mode, env)
      s2 == loss_stage(s1, labels, env)
      s3 == eval_stage(s2, labels)
      s4 == train_stage(s3)
  IN IF mode = PREDICT THEN Finish(s1, Return(s1.spec_kwargs))
     ELSE IF mode = EVAL THEN Finish(s3, Return(s3.spec_kwargs))
     ELSE IF mode = TRAIN THEN Finish(s4, Return(s4.spec_kwargs))
     ELSE Finish(s4, Raise("ValueError: Unrecognized mode"))

get_estimator_spec(g, features, labels, mode, env) ==
  LET s1 == inference_stage(g, features, mode, env)
      s2 == loss_stage(s1, labels, env)
      s3 == eval_stage(s2, labels)
      s4 == train_stage(s2)
  IN IF mode = PREDICT THEN Finish(s1, Return(s1.spec_kwargs))
     ELSE IF mode = EVAL THEN Finish(s3, Return(s3.spec_kwargs))
     ELSE IF mode = TRAIN THEN Finish(s4, Return(s4.spec_kwargs))
     ELSE Finish(s4, Raise("ValueError: Unrecognized mode"))

(* ------------------------------- inputs -------------------------------- *)
\* n is the number of examples of the dataset the subclass callback returns.
Repeated(n, repeat_count) ==
  IF n = 0 THEN 0
  ELSE IF repeat_count = None THEN Infinite ELSE n * repeat_count

get_train_inputs(n, repeat_count, batch_size) ==
  [features |-> <<"train_features">>, labels |-> <<"train_labels">>,
   dataset |-> [source |-> "train", remaining |-> Repeated(n, repeat_count),
                batch_size |-> batch_size]]

get_eval_inputs(n, batch_size) ==
  [features |-> <<"eval_features">>, labels |-> <<"eval_labels">>,
   dataset |-> [source |-> "eval", remaining |-> n,
                batch_size |-> batch_size]]

get_predict_inputs(n, batch_size) ==
  [features |-> <<"predict_features">>, labels |-> None,
   dataset |-> [source |-> "predict", remaining |-> n,
                batch_size |-> batch_size]]

\* `tf.esitmator` is not an attribute of the tensorflow module: evaluating
\* the first elif condition raises AttributeError.
get_inputs(mode, n, batch_size) ==
  IF mode = TRAIN
    THEN Return(get_train_inputs(n, None, batch_size))
    ELSE Raise("AttributeError: esitmator")

(* ------------------------------ session -------------------------------- *)
NoLocals ==
  [features |-> Unbound, labels |-> Unbound, predictions |-> Unbound]

NoSess ==
  [open |-> FALSE, restored |-> FALSE, runs |-> 0, remaining |-> 0,
   batch_size |-> 1]

MonitoredSession(dataset) ==
  [open |-> TRUE, restored |-> FALSE, runs |-> 0,
   remaining |-> dataset.remaining, batch_size |-> dataset.batch_size]

\* One sess.run(fetches) on session s: a None fetch is rejected with
\* TypeError, an exhausted iterator raises OutOfRangeError, otherwise every
\* fetch is evaluated on the next batch.
sess_run(s, fetches) ==
  IF \E i \in 1..Len(fetches) : fetches[i] = None
    THEN [out |-> "TypeError", data |-> <<>>, sess |-> s]
  ELSE IF s.remaining = 0
    THEN [out |-> "OutOfRangeError", data |-> <<>>, sess |-> s]
  ELSE [out |-> "ok",
        data |-> [i \in 1..Len(fetches) |-> <<fetches[i], s.runs + 1>>],
        sess |-> [s EXCEPT !.runs = @ + 1,
                    !.remaining = IF @ = Infinite THEN Infinite
                                  ELSE @ - Min(@, s.batch_size)]]

NoEnv == [inf_reg |-> <<>>, inf_upd |-> {}, loss_upd |-> {}, loss_val |-> 0]

\* The call in progress or last completed: its name, its arguments, the
\* graph it started from and what the callbacks did during it.
Op(name, mode, features, labels, inference_loss, g0, env) ==
  [name |-> name, mode |-> mode, features |-> features, labels |-> labels,
   inference_loss |-> inference_loss, graph0 |-> g0, env |-> env]

(* ------------------------------ actions -------------------------------- *)
Init ==
  /\ params \in [batch_size : 1..MaxBatch]
  /\ graph = EmptyGraph
  /\ op = Op("__init__", "", Unbound, Unbound, 0, EmptyGraph, NoEnv)
  /\ calls = <<>>
  /\ ret = NoRet
  /\ pc = "idle"
  /\ locals = NoLocals
  /\ sess = NoSess
  /\ vis_calls = <<>>

GetInputs(mode, n) ==
  /\ pc = "idle"
  /\ op' = Op("get_inputs", mode, Unbound, Unbound, 0, graph, NoEnv)
  /\ ret' = get_inputs(mode, n, params.batch_size)
  /\ calls' = <<>>
  /\ vis_calls' = <<>>
  /\ UNCHANGED <<params, graph, pc, locals, sess>>

GetTotalLoss(g0, inference_loss) ==
  /\ pc = "idle"
  /\ LET r == get_total_loss(g0, inference_loss)
     IN /\ graph' = r.graph
        /\ ret' = Return(r.loss)
  /\ op' = Op("get_total_loss", "", Unbound, Unbound, inference_loss, g0,
              NoEnv)
  /\ calls' = <<>>
  /\ vis_calls' = <<>>
  /\ UNCHANGED <<params, pc, locals, sess>>

GetEstimatorSpec(g0, features, labels, mode, env) ==
  /\ pc = "idle"
  /\ LET r == get_estimator_spec(g0, features, labels, mode, env)
     IN /\ graph' = r.graph
        /\ calls' = r.calls
        /\ ret' = r.ret
  /\ op' = Op("get_estimator_spec", mode, features, labels, 0, g0, env)
  /\ vis_calls' = <<>>
  /\ UNCHANGED <<params, pc, locals, sess>>

\* The part of vis_inputs/vis_predictions that binds features and labels.
vis_bind(mode, n, batch_size) ==
  IF mode = PREDICT THEN get_predict_inputs(n, batch_size)
  ELSE IF mode = TRAIN THEN get_train_inputs(n, None, batch_size)
  ELSE [features |-> Unbound, labels |-> Unbound, dataset |-> NoDataset]

VisInputs(mode, n) ==
  /\ pc = "idle"
  /\ op' = Op("vis_inputs", mode, Unbound, Unbound, 0, EmptyGraph, NoEnv)
  /\ graph' = EmptyGraph
  /\ calls' = <<>>
  /\ vis_calls' = <<>>
  /\ LET in == vis_bind(mode, n, params.batch_size)
     IN IF in.features = Unbound
          THEN \* the session opens, then reading `features` fails
               /\ ret' = Raise("UnboundLocalError")
               /\ UNCHANGED <<pc, locals, sess>>
          ELSE /\ ret' = NoRet
               /\ pc' = "vis_inputs"
               /\ locals' = [NoLocals EXCEPT !.features = in.features,
                                            !.labels = in.labels]
               /\ sess' = MonitoredSession(in.dataset)
  /\ UNCHANGED params

\* One iteration of `while not sess.should_stop()` in vis_inputs.
VisInputsLoop ==
  /\ pc = "vis_inputs"
  /\ sess.runs < MaxRuns
  /\ LET r == sess_run(sess, <<locals.features, locals.labels>>)
     IN IF r.out = "ok"
          THEN /\ vis_calls' = Append(vis_calls,
                     [fn |-> "vis_example_data", args |-> r.data])
               /\ sess' = r.sess
               /\ UNCHANGED <<pc, locals, ret>>
          ELSE /\ ret' = IF r.out = "OutOfRangeError" THEN Return(None)
                         ELSE Raise(r.out)
               /\ pc' = "idle"
               /\ locals' = NoLocals
               /\ sess' = NoSess
               /\ UNCHANGED vis_calls
  /\ UNCHANGED <<params, graph, op, calls>>

VisPredictions(mode, n, env, ckpt) ==
  /\ pc = "idle"
  /\ op' = Op("vis_predictions", mode, Unbound, Unbound, 0, EmptyGraph, env)
  /\ vis_calls' = <<>>
  /\ LET in == vis_bind(mode, n, params.batch_size)
     IN IF in.features = Unbound
          THEN /\ ret' = Raise("UnboundLocalError")
               /\ calls' = <<>>
               /\ graph' = EmptyGraph
               /\ UNCHANGED <<pc, locals, sess>>
          ELSE LET r == get_estimator_spec(EmptyGraph, in.features, in.labels,
                                           PREDICT, env)
               IN /\ calls' = r.calls
                  /\ graph' = r.graph
                  /\ IF r.ret.kind # "return"
                       THEN /\ ret' = r.ret
                            /\ UNCHANGED <<pc, locals, sess>>
                     ELSE IF ckpt = None
                       THEN \* saver.restore(sess, None)
                            /\ ret' = Raise("ValueError: save_path is None")
                            /\ UNCHANGED <<pc, locals, sess>>
                     ELSE /\ ret' = NoRet
                          /\ pc' = "vis_predictions"
                          /\ locals' =
                               [features |-> in.features, labels |-> in.labels,
                                predictions |-> r.ret.value.predictions]
                          /\ sess' = [MonitoredSession(in.dataset)
                                        EXCEPT !.restored = TRUE]
  /\ UNCHANGED params

\* One iteration of `while not sess.should_stop()` in vis_predictions.
VisPredictionsLoop ==
  /\ pc = "vis_predictions"
  /\ sess.runs < MaxRuns
  /\ LET r == sess_run(sess,
                 <<locals.predictions, locals.features, locals.labels>>)
     IN IF r.out = "ok"
          THEN /\ vis_calls' = Append(vis_calls,
                     [fn |-> "vis_prediction_data", args |-> r.data])
               /\ sess' = r.sess
               /\ UNCHANGED <<pc, locals, ret>>
          ELSE /\ ret' = IF r.out = "OutOfRangeError" THEN Return(None)
                         ELSE Raise(r.out)
               /\ pc' = "idle"
               /\ locals' = NoLocals
               /\ sess' = NoSess
               /\ UNCHANGED vis_calls
  /\ UNCHANGED <<params, graph, op, calls>>

Checkpoints == {None, <<"ckpt">>}

\* vis_predictions builds its spec in PREDICT mode, where only get_inference
\* acts on the graph.
InferenceEnvs == {e \in Envs : e.loss_upd = {} /\ e.loss_val = 0}

Next ==
  \/ \E mode \in Modes, n \in 0..MaxExamples : GetInputs(mode, n)
  \/ \E g0 \in Graphs(MaxRegLosses), l \in LossValues : GetTotalLoss(g0, l)
  \/ \E g0 \in Graphs(0), f \in Features, l \in Labels, mode \in Modes,
        env \in Envs : GetEstimatorSpec(g0, f, l, mode, env)
  \/ \E mode \in Modes, n \in 0..MaxExamples : VisInputs(mode, n)
  \/ VisInputsLoop
  \/ \E mode \in Modes, n \in 0..MaxExamples, env \in InferenceEnvs,
        ckpt \in Checkpoints : VisPredictions(mode, n, env, ckpt)
  \/ VisPredictionsLoop

Spec == Init /\ [][Next]_vars

(* ------------------------------ properties ----------------------------- *)
Called(fn) == \E i \in DOMAIN calls : calls[i].fn = fn
Count(fn) == Cardinality({i \in DOMAIN calls : calls[i].fn = fn})

RECURSIVE SumUpTo(_, _)
SumUpTo(s, k) == IF k = 0 THEN 0 ELSE s[k] + SumUpTo(s, k - 1)

ModeSource(mode) ==
  IF mode = TRAIN THEN "train" ELSE IF mode = EVAL THEN "eval" ELSE "predict"
ModeFeatures(mode) == <<ModeSource(mode) \o "_features">>

InSpec == op.name = "get_estimator_spec"

\* C1: get_inputs(mode) returns, for TRAIN, EVAL and PREDICT, the
\* (features, labels) pair of that mode's input function, and completes
\* normally.
C1_GetInputsRedirects ==
  (op.name = "get_inputs" /\ op.mode \in {TRAIN, EVAL, PREDICT}) =>
     /\ ret.kind = "return"
     /\ ret.value.dataset.source = ModeSource(op.mode)

\* C2: get_total_loss returns inference_loss unchanged and records no
\* summary when REGULARIZATION_LOSSES is empty; otherwise it returns
\* inference_loss plus the sum of the collection and records exactly the
\* summaries 'inference_loss' and 'reg_loss'.
C2_TotalLoss ==
  op.name = "get_total_loss" =>
     LET regs == op.graph0.REGULARIZATION_LOSSES
         sum == SumUpTo(regs, Len(regs))
     IN /\ ret.kind = "return"
        /\ graph.REGULARIZATION_LOSSES = regs
        /\ IF Len(regs) = 0
             THEN /\ ret.value = op.inference_loss
                  /\ graph.summaries = op.graph0.summaries
             ELSE /\ ret.value = op.inference_loss + sum
                  /\ Len(graph.summaries) = Len(op.graph0.summaries) + 2
                  /\ SubSeq(graph.summaries, 1, Len(op.graph0.summaries))
                        = op.graph0.summaries
                  /\ {graph.summaries[i].tag :
                        i \in Len(op.graph0.summaries) + 1
                              .. Len(graph.summaries)}
                        = {"inference_loss", "reg_loss"}

C2_Witness ==
  /\ op.name = "get_total_loss"
  /\ Len(op.graph0.REGULARIZATION_LOSSES) = 2
  /\ ret.kind = "return"
  /\ ret.value > op.inference_loss
  /\ Len(graph.summaries) = 2

\* C3: in TRAIN mode get_train_op is invoked exactly once, after
\* get_inference and get_inference_loss, and every update op those two
\* registered is a control dependency of the returned train_op.
C3_TrainOpUnderUpdateOps ==
  (InSpec /\ op.mode = TRAIN) =>
     /\ ret.kind = "return"
     /\ Count("get_train_op") = 1
     /\ \A i \in DOMAIN calls : calls[i].fn = "get_train_op" =>
          /\ \E j \in 1..(i - 1) : calls[j].fn = "get_inference"
          /\ \E j \in 1..(i - 1) : calls[j].fn = "get_inference_loss"
          /\ \A j \in DOMAIN calls :
               calls[j].fn \in {"get_inference", "get_inference_loss"} =>
                  /\ j < i
                  /\ calls[j].upd \subseteq calls[i].ctl
                  /\ calls[j].upd \subseteq
                        ret.value.train_op.control_inputs
     /\ op.env.inf_upd \cup op.env.loss_upd
           \subseteq ret.value.train_op.control_inputs

C3_Witness ==
  /\ InSpec /\ op.mode = TRAIN
  /\ op.env.inf_upd = {"u1"} /\ op.env.loss_upd = {"u2"}
  /\ ret.kind = "return"
  /\ Called("get_train_op")
  /\ {"u1", "u2"} \subseteq ret.value.train_op.control_inputs

\* C4: in PREDICT mode the spec carries only the mode and the predictions,
\* no loss, metric or train callback is invoked, and the call succeeds
\* also when labels is None.
C4_PredictSpec ==
  (InSpec /\ op.mode = PREDICT) =>
     /\ ret.kind = "return"
     /\ DOMAIN ret.value = {"mode", "predictions"}
     /\ ret.value.mode = PREDICT
     /\ ret.value.predictions = get_predictions(get_inference(op.features,
                                                              PREDICT))
     /\ ~Called("get_inference_loss")
     /\ ~Called("get_total_loss")
     /\ ~Called("get_eval_metric_ops")
     /\ ~Called("get_train_op")

C4_Witness ==
  /\ InSpec /\ op.mode = PREDICT
  /\ op.labels = None
  /\ ret.kind = "return"
  /\ Called("get_inference")

\* C5: in EVAL mode the spec carries the predictions, the loss
\* get_total_loss(get_inference_loss(inference, labels)) and the (empty)
\* eval_metric_ops; it has no train_op, and neither get_train_op nor the
\* creation of the global step is reached.
C5_EvalSpec ==
  (InSpec /\ op.mode = EVAL) =>
     /\ ret.kind = "return"
     /\ DOMAIN ret.value = {"mode", "predictions", "loss", "eval_metric_ops"}
     /\ ret.value.predictions = get_predictions(get_inference(op.features,
                                                              EVAL))
     /\ ret.value.loss =
           op.env.loss_val + SumUpTo(graph.REGULARIZATION_LOSSES,
                                     Len(graph.REGULARIZATION_LOSSES))
     /\ ret.value.eval_metric_ops = <<>>
     /\ Count("get_inference_loss") = 1
     /\ Count("get_total_loss") = 1
     /\ Count("get_eval_metric_ops") = 1
     /\ ~Called("get_train_op")
     /\ ~graph.global_step

C5_Witness ==
  /\ InSpec /\ op.mode = EVAL
  /\ ret.kind = "return"
  /\ Len(graph.REGULARIZATION_LOSSES) > 0
  /\ ret.value.loss > op.env.loss_val
  /\ Called("get_eval_metric_ops")

\* C6: for a mode other than TRAIN, EVAL and PREDICT get_estimator_spec
\* raises ValueError('Unrecognized mode ...') and returns no spec.
C6_UnrecognizedMode ==
  (InSpec /\ op.mode \notin {TRAIN, EVAL, PREDICT}) =>
     /\ ret.kind = "raise"
     /\ ret.exc = "ValueError: Unrecognized mode"
     /\ ret.value = <<>>

C6_Witness ==
  /\ InSpec /\ op.mode = OtherMode
  /\ ret.kind = "raise"

\* C7 as stated: get_train_op only in TRAIN, get_eval_metric_ops only in
\* EVAL, get_inference_loss only in TRAIN or EVAL, and a call ending in
\* the 'Unrecognized mode' error has invoked none of get_inference_loss,
\* get_total_loss and get_train_op.
C7_CallbacksOnlyInTheirMode ==
  InSpec =>
     /\ Called("get_train_op") => op.mode = TRAIN
     /\ Called("get_eval_metric_ops") => op.mode = EVAL
     /\ Called("get_inference_loss") => op.mode \in {TRAIN, EVAL}
     /\ ret.exc = "ValueError: Unrecognized mode" =>
          /\ ~Called("get_inference_loss")
          /\ ~Called("get_total_loss")
          /\ ~Called("get_train_op")

\* C7 amended: get_train_op is invoked only if mode is neither PREDICT nor
\* EVAL, get_eval_metric_ops only if mode is EVAL, get_inference_loss only
\* if mode is not PREDICT; a call ending in the 'Unrecognized mode' error
\* has invoked get_inference_loss, get_total_loss and get_train_op once
\* each, and never get_eval_metric_ops.
C7_CallbacksByBranch ==
  InSpec =>
     /\ Called("get_train_op") => op.mode \notin {PREDICT, EVAL}
     /\ Called("get_eval_metric_ops") => op.mode = EVAL
     /\ Called("get_inference_loss") => op.mode # PREDICT
     /\ ret.exc = "ValueError: Unrecognized mode" =>
          /\ Count("get_inference_loss") = 1
          /\ Count("get_total_loss") = 1
          /\ Count("get_train_op") = 1
          /\ ~Called("get_eval_metric_ops")

C7_Witness ==
  /\ InSpec /\ op.mode = OtherMode
  /\ ret.exc = "ValueError: Unrecognized mode"
  /\ Called("get_train_op")
  /\ Called("get_inference_loss")

\* C8: whatever mode is passed, vis_predictions builds the predictions with
\* get_estimator_spec in PREDICT mode (no loss, no train op), restores the
\* checkpoint before the first session run, and calls vis_prediction_data
\* once per successful run with (prediction_data, feature_data, label_data).
C8_VisPredictions ==
  op.name = "vis_predictions" =>
     /\ Called("get_inference")
     /\ ~Called("get_inference_loss") /\ ~Called("get_train_op")
     /\ ret.exc # "UnboundLocalError"
     /\ pc = "vis_predictions" =>
          /\ sess.restored
          /\ Len(vis_calls) = sess.runs
          /\ \A k \in DOMAIN vis_calls :
               /\ vis_calls[k].fn = "vis_prediction_data"
               /\ vis_calls[k].args = << <<locals.predictions, k>>,
                                         <<locals.features, k>>,
                                         <<locals.labels, k>> >>

\* C9: for TRAIN, EVAL and PREDICT, vis_inputs and vis_predictions bind
\* features and labels to the outputs of that mode's input function before
\* the session loop starts.
C9_VisBindsModeInputs ==
  (op.name \in {"vis_inputs", "vis_predictions"}
     /\ op.mode \in {TRAIN, EVAL, PREDICT}) =>
     /\ ret.exc # "UnboundLocalError"
     /\ pc # "idle" => locals.features = ModeFeatures(op.mode)

====
